---- MODULE Spec2Model ----
(***************************************************************************)
(* hesiod-go: composing the DNS name of a Hesiod question, resolving it    *)
(* through the TXT lookup capability and parsing service records.          *)
(*                                                                         *)
(* Go strings are modelled as sequences of one-character strings, so that  *)
(* strings.SplitN, strings.ContainsRune, the concatenations and fmt.Sscanf *)
(* are computed character by character.  The call stack of the mutually    *)
(* recursive Resolve / prepareDNSName is explicit: one action per stretch  *)
(* of code between two calls.                                              *)
(***************************************************************************)
EXTENDS Integers, Sequences, FiniteSets, TLC

VARIABLES
    stack,    \* the Go call stack, outermost frame first
    call,     \* the arguments of the current top-level call
    ret,      \* the values returned by the call that returned last
    status,   \* "idle", "running", "returned" or "panicked"
    lookups,  \* the LookupTXT invocations of the top-level call, in order
    last      \* what the capability returned to its latest invocation

vars == <<stack, call, ret, status, lookups, last>>

(***************************************************************************)
(* Bounds of the model.                                                    *)
(***************************************************************************)
MaxQuestionLen == 2
MaxRecords == 2

SeqsUpTo(S, n) == UNION {[1..k -> S] : k \in 0..n}

(***************************************************************************)
(* Strings of the program.                                                 *)
(***************************************************************************)
AthenaConfig ==
    [Nameserver |-> <<".", "n", "s">>,
     Realm |-> <<".", "a", "t", "h", "e", "n", "a", ".", "m", "i", "t", ".", "e", "d", "u">>]

RhsExtension == <<"r", "h", "s", "-", "e", "x", "t", "e", "n", "s", "i", "o", "n">>
Service == <<"s", "e", "r", "v", "i", "c", "e">>
Sloc == <<"s", "l", "o", "c">>
Udp == <<"u", "d", "p">>
Tcp == <<"t", "c", "p">>
Zephyr == <<"z", "e", "p", "h", "y", "r">>
Fake == <<"f", "a", "k", "e">>

\* The inputs of the calls.
QuestionChars == {"a", "@", "."}
Questions == SeqsUpTo(QuestionChars, MaxQuestionLen)
QueryTypes == {Sloc, RhsExtension}
Protocols == {Udp, Tcp}

\* TXT records the capability may hand back: service records (well-formed
\* and not), realm names, zephyr server locations.
RecZephyrUdp == Zephyr \o <<" ">> \o Udp \o <<" ", "2", "1", "0", "2">>
RecFakeTcp == Fake \o <<" ">> \o Tcp \o <<" ", "1", "2">>
RecNoPort == Zephyr \o <<" ">> \o Udp
RecBadPort == Zephyr \o <<" ">> \o Udp \o <<" ", "x">>
RecTrailing == Zephyr \o <<" ">> \o Udp \o <<" ", "2", "1", "x">>
ServiceRecords == {RecZephyrUdp, RecFakeTcp, RecNoPort, RecBadPort, RecTrailing}

RealmSipb == <<"s", "i", "p", "b", ".", "m", "i", "t", ".", "e", "d", "u">>
RealmAthena == <<"a", "t", "h", "e", "n", "a", ".", "m", "i", "t", ".", "e", "d", "u">>
RealmRecords == {RealmSipb, RealmAthena}

Arilinn == <<"A", "R", "I", "L", "I", "N", "N", ".", "M", "I", "T", ".", "E", "D", "U">>
Neskaya == <<"N", "E", "S", "K", "A", "Y", "A", ".", "M", "I", "T", ".", "E", "D", "U">>
SlocRecords == {Arilinn, Neskaya}

\* the records served under a query type
RecordsOf(queryType) ==
    IF queryType = Service THEN ServiceRecords
    ELSE IF queryType = RhsExtension THEN RealmRecords
    ELSE SlocRecords

\* error values; Nil is Go's nil error
Nil == "nil"
LookupErrors == {"no such host", "timeout"}
ErrInputEnds == "unexpected EOF"
ErrExpectedInteger == "expected integer"

\* Every (records, error) pair a LookupTXT implementation can return to a
\* query of the type: any sequence of records with or without an error.
Outcomes(queryType) ==
    [records : SeqsUpTo(RecordsOf(queryType), MaxRecords), err : {Nil} \cup LookupErrors]

ZeroEntry == [ServiceName |-> <<>>, Port |-> 0, Protocol |-> <<>>]
ZeroRet == [dns |-> <<>>, txt |-> <<>>, result |-> ZeroEntry, err |-> Nil]
NoOutcome == [records |-> <<>>, err |-> Nil]

(***************************************************************************)
(* strings.SplitN(s, "@", 2), strings.ContainsRune.                        *)
(***************************************************************************)
RECURSIVE Index(_, _)
Index(s, c) ==
    IF s = <<>> THEN 0
    ELSE IF Head(s) = c THEN 1
    ELSE LET i == Index(Tail(s), c) IN IF i = 0 THEN 0 ELSE i + 1

SplitN(s, sep) ==
    LET i == Index(s, sep) IN
    IF i = 0 THEN <<s>>
    ELSE <<SubSeq(s, 1, i - 1), SubSeq(s, i + 1, Len(s))>>

ContainsRune(s, c) == \E i \in 1..Len(s) : s[i] = c

(***************************************************************************)
(* fmt.Sscanf(candidate, "%s %s %d", ...): each verb skips leading blanks; *)
(* %s takes the run of non-blank characters; %d takes an optional sign and *)
(* the run of decimal digits that follows.  Input left over after the last *)
(* verb is not an error.  Input that ends before a verb is the error       *)
(* ErrInputEnds (Go reports io.EOF or io.ErrUnexpectedEOF); a number too   *)
(* large for an int does not occur in the records modelled.                *)
(***************************************************************************)
IsSpace(c) == c \in {" ", "\t", "\r"}
Digits == {"0", "1", "2", "3", "4", "5", "6", "7", "8", "9"}

DigitValue(c) ==
    CASE c = "0" -> 0 [] c = "1" -> 1 [] c = "2" -> 2 [] c = "3" -> 3 [] c = "4" -> 4
      [] c = "5" -> 5 [] c = "6" -> 6 [] c = "7" -> 7 [] c = "8" -> 8 [] c = "9" -> 9

RECURSIVE SkipSpace(_)
SkipSpace(s) ==
    IF s # <<>> /\ IsSpace(Head(s)) THEN SkipSpace(Tail(s)) ELSE s

\* the longest prefix of s whose characters satisfy none of the blanks
RECURSIVE Token(_)
Token(s) ==
    IF s = <<>> \/ IsSpace(Head(s)) THEN <<>>
    ELSE <<Head(s)>> \o Token(Tail(s))

RECURSIVE DigitRun(_)
DigitRun(s) ==
    IF s = <<>> \/ Head(s) \notin Digits THEN <<>>
    ELSE <<Head(s)>> \o DigitRun(Tail(s))

RECURSIVE ParseInt(_)
ParseInt(tok) ==
    IF tok = <<>> THEN 0
    ELSE 10 * ParseInt(SubSeq(tok, 1, Len(tok) - 1)) + DigitValue(tok[Len(tok)])

Rest(s, n) == SubSeq(s, n + 1, Len(s))

\* verb %s
convertString(s) ==
    LET t == SkipSpace(s) IN
    IF t = <<>>
    THEN [err |-> ErrInputEnds, val |-> <<>>, rest |-> t]
    ELSE [err |-> Nil, val |-> Token(t), rest |-> Rest(t, Len(Token(t)))]

\* verb %d
scanInt(s) ==
    LET t == SkipSpace(s)
        neg == t # <<>> /\ Head(t) = "-"
        u == IF t # <<>> /\ Head(t) \in {"+", "-"} THEN Tail(t) ELSE t
        tok == DigitRun(u)
    IN  IF t = <<>> \/ u = <<>>
        THEN [err |-> ErrInputEnds, val |-> 0, rest |-> u]
        ELSE IF tok = <<>>
        THEN [err |-> ErrExpectedInteger, val |-> 0, rest |-> u]
        ELSE [err |-> Nil,
              val |-> IF neg THEN 0 - ParseInt(tok) ELSE ParseInt(tok),
              rest |-> Rest(u, Len(tok))]

Sscanf(candidate) ==
    LET a == convertString(candidate)
        b == convertString(a.rest)
        c == scanInt(b.rest)
    IN  [resolvedService |-> a.val,
         protocol |-> IF a.err = Nil THEN b.val ELSE <<>>,
         port |-> IF a.err = Nil /\ b.err = Nil THEN c.val ELSE 0,
         err |-> IF a.err # Nil THEN a.err
                 ELSE IF b.err # Nil THEN b.err
                 ELSE c.err]

(***************************************************************************)
(* The loop of GetServiceByName over the candidates Resolve returned; err  *)
(* enters as Resolve's error and is overwritten by each Sscanf.            *)
(***************************************************************************)
\* Faulty variants of the loop: a mismatching protocol ends the scan; a scan
\* without match is an error; a malformed record is skipped.
RECURSIVE GetServiceLoop_ReturnOnMismatch(_, _, _)
GetServiceLoop_ReturnOnMismatch(candidates, proto, err) ==
    IF candidates = <<>> THEN [result |-> ZeroEntry, err |-> err]
    ELSE LET s == Sscanf(Head(candidates)) IN
         IF s.err # Nil THEN [result |-> ZeroEntry, err |-> s.err]
         ELSE IF s.protocol # proto
         THEN [result |-> ZeroEntry, err |-> s.err]
         ELSE [result |-> [ServiceName |-> s.resolvedService,
                           Port |-> s.port,
                           Protocol |-> s.protocol],
               err |-> Nil]

RECURSIVE GetServiceLoop_NotFound(_, _, _)
GetServiceLoop_NotFound(candidates, proto, err) ==
    IF candidates = <<>>
    THEN [result |-> ZeroEntry, err |-> IF err = Nil THEN "service not found" ELSE err]
    ELSE LET s == Sscanf(Head(candidates)) IN
         IF s.err # Nil THEN [result |-> ZeroEntry, err |-> s.err]
         ELSE IF s.protocol # proto
         THEN GetServiceLoop_NotFound(Tail(candidates), proto, s.err)
         ELSE [result |-> [ServiceName |-> s.resolvedService,
                           Port |-> s.port,
                           Protocol |-> s.protocol],
               err |-> Nil]

RECURSIVE GetServiceLoop_SkipsMalformed(_, _, _)
GetServiceLoop_SkipsMalformed(candidates, proto, err) ==
    IF candidates = <<>> THEN [result |-> ZeroEntry, err |-> err]
    ELSE LET s == Sscanf(Head(candidates)) IN
         IF s.err # Nil \/ s.protocol # proto
         THEN GetServiceLoop_SkipsMalformed(Tail(candidates), proto, s.err)
         ELSE [result |-> [ServiceName |-> s.resolvedService,
                           Port |-> s.port,
                           Protocol |-> s.protocol],
               err |-> Nil]

RECURSIVE GetServiceLoop(_, _, _)
GetServiceLoop(candidates, proto, err) ==
    IF candidates = <<>> THEN [result |-> ZeroEntry, err |-> err]
    ELSE LET s == Sscanf(Head(candidates)) IN
         IF s.err # Nil THEN [result |-> ZeroEntry, err |-> s.err]
         ELSE IF s.protocol # proto
         THEN GetServiceLoop(Tail(candidates), proto, s.err)
         ELSE [result |-> [ServiceName |-> s.resolvedService,
                           Port |-> s.port,
                           Protocol |-> s.protocol],
               err |-> Nil]

(***************************************************************************)
(* The resolver NewHesiodWithConfig(AthenaConfig) builds.  Its lookup      *)
(* capability is any LookupTXT implementation: each invocation returns one *)
(* of Outcomes.                                                            *)
(***************************************************************************)
hesiod == [nameserver |-> AthenaConfig.Nameserver, realm |-> AthenaConfig.Realm]

Frame(fn, question, queryType) ==
    [fn |-> fn, pc |-> "start", question |-> question, queryType |-> queryType]

Top == stack[Len(stack)]
Running(fn, pc) ==
    /\ status = "running"
    /\ stack # <<>>
    /\ Top.fn = fn
    /\ Top.pc = pc

\* the callee is pushed and the caller waits at pc
Push(callee, pc) ==
    stack' = Append([stack EXCEPT ![Len(stack)].pc = pc], callee)

\* the top frame returns values to its caller
Return(values) ==
    /\ ret' = values
    /\ stack' = SubSeq(stack, 1, Len(stack) - 1)
    /\ status' = IF Len(stack) = 1 THEN "returned" ELSE "running"

\* A client calls into the resolver when no call is in progress.
Begin(fn, question, queryType) ==
    /\ stack' = <<Frame(fn, question, queryType)>>
    /\ call' = [fn |-> fn, question |-> question, queryType |-> queryType]
    /\ status' = "running"
    /\ UNCHANGED <<ret, lookups, last>>

CallPrepareDNSName ==
    /\ status = "idle"
    /\ \E q \in Questions, t \in QueryTypes : Begin("prepareDNSName", q, t)

CallResolve ==
    /\ status = "idle"
    /\ \E q \in Questions, t \in QueryTypes : Begin("Resolve", q, t)

CallGetServiceByName ==
    /\ status = "idle"
    /\ \E q \in Questions, p \in Protocols : Begin("GetServiceByName", q, p)

\* The client has taken the returned values; the resolver keeps nothing of
\* the call.
Done ==
    /\ status = "returned"
    /\ stack' = <<>>
    /\ call' = [fn |-> "none", question |-> <<>>, queryType |-> <<>>]
    /\ ret' = ZeroRet
    /\ status' = "idle"
    /\ lookups' = <<>>
    /\ last' = NoOutcome

(***************************************************************************)
(* prepareDNSName                                                          *)
(***************************************************************************)
splitQuestion(question) == SplitN(question, "@")

\* A faulty variant: every realm after '@' is looked up, qualified or not.
IsSymbolic_IgnoresDot(question) == Len(splitQuestion(question)) = 2

\* the realm names another realm by a symbol: no '.' in it
IsSymbolic(question) ==
    /\ Len(splitQuestion(question)) = 2
    /\ ~ContainsRune(splitQuestion(question)[2], ".")

\* A faulty variant: the realm put before the name server suffix.
composeDNSName_RealmFirst(localPart, queryType, realm) ==
    localPart \o <<".">> \o queryType \o realm \o hesiod.nameserver

composeDNSName(localPart, queryType, realm) ==
    localPart \o <<".">> \o queryType \o hesiod.nameserver \o realm

\* no '@', or a qualified realm after it: the name is composed at once
PrepareDirect ==
    /\ Running("prepareDNSName", "start")
    /\ ~IsSymbolic(Top.question)
    /\ LET sq == splitQuestion(Top.question)
           realm == IF Len(sq) = 2 THEN <<".">> \o sq[2] ELSE hesiod.realm
       IN  Return([ZeroRet EXCEPT !.dns = composeDNSName(sq[1], Top.queryType, realm)])
    /\ UNCHANGED <<call, lookups, last>>

\* hesiod.Resolve(realm, "rhs-extension")
PrepareRedirect ==
    /\ Running("prepareDNSName", "start")
    /\ IsSymbolic(Top.question)
    /\ Push(Frame("Resolve", splitQuestion(Top.question)[2], RhsExtension), "rhs")
    /\ UNCHANGED <<call, ret, status, lookups, last>>

\* the rhs-extension Resolve failed
PrepareRhsFailed ==
    /\ Running("prepareDNSName", "rhs")
    /\ ret.err # Nil
    /\ Return([ZeroRet EXCEPT !.err = ret.err])
    /\ UNCHANGED <<call, lookups, last>>

\* candidates[0] of an empty slice: index out of range, the goroutine panics
PrepareRhsPanic ==
    /\ Running("prepareDNSName", "rhs")
    /\ ret.err = Nil
    /\ ret.txt = <<>>
    /\ status' = "panicked"
    /\ UNCHANGED <<stack, call, ret, lookups, last>>

PrepareRhsCompose ==
    /\ Running("prepareDNSName", "rhs")
    /\ ret.err = Nil
    /\ ret.txt # <<>>
    /\ LET sq == splitQuestion(Top.question)
           realm == <<".">> \o ret.txt[1]
       IN  Return([ZeroRet EXCEPT !.dns = composeDNSName(sq[1], Top.queryType, realm)])
    /\ UNCHANGED <<call, lookups, last>>

(***************************************************************************)
(* Resolve                                                                 *)
(***************************************************************************)
ResolveStart ==
    /\ Running("Resolve", "start")
    /\ Push(Frame("prepareDNSName", Top.question, Top.queryType), "prepared")
    /\ UNCHANGED <<call, ret, status, lookups, last>>

ResolveFailed ==
    /\ Running("Resolve", "prepared")
    /\ ret.err # Nil
    /\ Return([ZeroRet EXCEPT !.err = ret.err])
    /\ UNCHANGED <<call, lookups, last>>

\* the invocations hesiod.lookup.LookupTXT(dns) adds to the log
Invoke(log, dns, depth) == Append(log, [name |-> dns, depth |-> depth])

\* Faulty variants: the records returned in reverse order; a failed lookup
\* returned as no record and no error.
LookupReturn_Reversed(outcome) ==
    [ZeroRet EXCEPT
        !.txt = [i \in 1..Len(outcome.records) |->
                    outcome.records[Len(outcome.records) + 1 - i]],
        !.err = outcome.err]

LookupReturn_SwallowsError(outcome) ==
    IF outcome.err # Nil THEN ZeroRet
    ELSE [ZeroRet EXCEPT !.txt = outcome.records]

\* txt, err = hesiod.lookup.LookupTXT(dns); return
LookupReturn(outcome) == [ZeroRet EXCEPT !.txt = outcome.records, !.err = outcome.err]

ResolveLookup ==
    /\ Running("Resolve", "prepared")
    /\ ret.err = Nil
    /\ \E outcome \in Outcomes(Top.queryType) :
          /\ last' = outcome
          /\ Return(LookupReturn(outcome))
    /\ lookups' = Invoke(lookups, ret.dns, Len(stack))
    /\ UNCHANGED call

(***************************************************************************)
(* GetServiceByName                                                        *)
(***************************************************************************)
GetServiceStart ==
    /\ Running("GetServiceByName", "start")
    /\ Push(Frame("Resolve", Top.question, Service), "resolved")
    /\ UNCHANGED <<call, ret, status, lookups, last>>

GetServiceScan ==
    /\ Running("GetServiceByName", "resolved")
    /\ LET r == GetServiceLoop(ret.txt, Top.queryType, ret.err)
       IN  Return([ZeroRet EXCEPT !.result = r.result, !.err = r.err])
    /\ UNCHANGED <<call, lookups, last>>

(***************************************************************************)
(* The specification.                                                      *)
(***************************************************************************)
Init ==
    /\ stack = <<>>
    /\ call = [fn |-> "none", question |-> <<>>, queryType |-> <<>>]
    /\ ret = ZeroRet
    /\ status = "idle"
    /\ lookups = <<>>
    /\ last = NoOutcome

Next ==
    \/ CallPrepareDNSName
    \/ CallResolve
    \/ CallGetServiceByName
    \/ PrepareDirect
    \/ PrepareRedirect
    \/ PrepareRhsFailed
    \/ PrepareRhsPanic
    \/ PrepareRhsCompose
    \/ ResolveStart
    \/ ResolveFailed
    \/ ResolveLookup
    \/ GetServiceStart
    \/ GetServiceScan
    \/ Done

Spec == Init /\ [][Next]_vars

(***************************************************************************)
(* Vocabulary of the claims, stated apart from the operators above.        *)
(***************************************************************************)
HasAt(q) == \E i \in 1..Len(q) : q[i] = "@"
NumAt(q) == Cardinality({i \in 1..Len(q) : q[i] = "@"})
FirstAt(q) == CHOOSE i \in 1..Len(q) : q[i] = "@" /\ \A j \in 1..(i - 1) : q[j] # "@"
LocalPart(q) == SubSeq(q, 1, FirstAt(q) - 1)
AfterAt(q) == SubSeq(q, FirstAt(q) + 1, Len(q))
Dotted(s) == \E i \in 1..Len(s) : s[i] = "."
Qualified(q) == HasAt(q) /\ Dotted(AfterAt(q))
Symbolic(q) == HasAt(q) /\ ~Dotted(AfterAt(q))

Returned(fn) == call.fn = fn /\ status = "returned"

\* the stack depth at which the top-level call's own Resolve runs
MainDepth == IF call.fn = "Resolve" THEN 1 ELSE 2
\* the capability was invoked for the name composed for the top-level call,
\* and `last` is what it answered
MainLookupDone == lookups # <<>> /\ lookups[Len(lookups)].depth = MainDepth
InvocationsAt(depth) == Cardinality({i \in 1..Len(lookups) : lookups[i].depth = depth})

\* the service records as a reader parses them
Entry(name, protocol, port) == [ServiceName |-> name, Port |-> port, Protocol |-> protocol]
EntryOf(record) ==
    CASE record = RecZephyrUdp -> Entry(Zephyr, Udp, 2102)
      [] record = RecFakeTcp -> Entry(Fake, Tcp, 12)
      [] record = RecTrailing -> Entry(Zephyr, Udp, 21)
\* exactly "<name> <protocol> <port>"
WellFormed == {RecZephyrUdp, RecFakeTcp}
\* a field is missing, or the port does not start with a number
Unparsable == {RecNoPort, RecBadPort}
\* three fields, the third a number followed by more text
Parsable == WellFormed \cup {RecTrailing}

\* record i is reached with no match before it: all before it parse and
\* carry another protocol
Skipped(records, i, proto) ==
    \A j \in 1..(i - 1) : records[j] \in Parsable /\ EntryOf(records[j]).Protocol # proto
SkippedWellFormed(records, i, proto) ==
    \A j \in 1..(i - 1) : records[j] \in WellFormed /\ EntryOf(records[j]).Protocol # proto

(***************************************************************************)
(* C1: prepareDNSName of a question without '@', or with a qualified realm *)
(* after its first '@', succeeds without invoking the lookup capability    *)
(* and returns question.queryType + nameserver + realm, respectively       *)
(* localPart.queryType + nameserver + "." + the text after the first '@'.  *)
(***************************************************************************)
C1_DirectName ==
    (call.fn = "prepareDNSName" /\ ~Symbolic(call.question)) =>
        /\ lookups = <<>>
        /\ status # "panicked"
        /\ status = "returned" =>
              /\ ret.err = Nil
              /\ ret.dns =
                    IF HasAt(call.question)
                    THEN LocalPart(call.question) \o <<".">> \o call.queryType
                            \o AthenaConfig.Nameserver \o <<".">> \o AfterAt(call.question)
                    ELSE call.question \o <<".">> \o call.queryType
                            \o AthenaConfig.Nameserver \o AthenaConfig.Realm

C1_Witness ==
    /\ Returned("prepareDNSName")
    /\ Qualified(call.question)
    /\ ret.err = Nil
    /\ ret.dns # <<>>
    /\ lookups = <<>>

(***************************************************************************)
(* C2: when the capability succeeds for the composed name, Resolve returns *)
(* with no error exactly the records it returned, in the same order.       *)
(***************************************************************************)
C2_ResolveReturnsRecords ==
    (Returned("Resolve") /\ MainLookupDone /\ last.err = Nil) =>
        /\ ret.err = Nil
        /\ ret.txt = last.records
        /\ ~HasAt(call.question) =>
              lookups[Len(lookups)].name =
                  call.question \o <<".">> \o call.queryType
                      \o AthenaConfig.Nameserver \o AthenaConfig.Realm

C2_Witness ==
    /\ Returned("Resolve")
    /\ MainLookupDone
    /\ last = [records |-> <<Neskaya, Arilinn>>, err |-> Nil]
    /\ ret.txt = <<Neskaya, Arilinn>>

(***************************************************************************)
(* C3: when the capability reports an error for the composed name, Resolve *)
(* returns that error (never an empty sequence with no error), and that    *)
(* Resolve has invoked the capability exactly once.                        *)
(***************************************************************************)
C3_LookupErrorReturned ==
    (Returned("Resolve") /\ MainLookupDone /\ last.err # Nil) =>
        /\ ret.err = last.err
        /\ ret.err \in LookupErrors
        /\ InvocationsAt(1) = 1

C3_Witness ==
    /\ Returned("Resolve")
    /\ MainLookupDone
    /\ last = [records |-> <<>>, err |-> "no such host"]
    /\ ret.err = "no such host"
    /\ Len(lookups) = 1

(***************************************************************************)
(* C4: GetServiceByName returns, with no error, the entry of the first     *)
(* record carrying the requested protocol; well-formed records with        *)
(* another protocol before it are skipped, records after it are not looked *)
(* at (whatever they are).                                                 *)
(***************************************************************************)
C4_FirstMatchWins ==
    (Returned("GetServiceByName") /\ MainLookupDone /\ last.err = Nil) =>
        \A i \in 1..Len(last.records) :
            ( /\ last.records[i] \in WellFormed
              /\ EntryOf(last.records[i]).Protocol = call.queryType
              /\ SkippedWellFormed(last.records, i, call.queryType) )
            => /\ ret.err = Nil
               /\ ret.result = EntryOf(last.records[i])

C4_Witness ==
    /\ Returned("GetServiceByName")
    /\ MainLookupDone
    /\ call.queryType = Udp
    /\ last = [records |-> <<RecFakeTcp, RecZephyrUdp>>, err |-> Nil]
    /\ ret.result = Entry(Zephyr, Udp, 2102)

(***************************************************************************)
(* C5: when the lookup succeeds and every record parses but none carries   *)
(* the requested protocol (no record at all included), GetServiceByName    *)
(* returns the zero ServiceEntry and no error.                             *)
(***************************************************************************)
C5_NoMatchZeroEntry ==
    ( /\ Returned("GetServiceByName")
      /\ MainLookupDone
      /\ last.err = Nil
      /\ \A i \in 1..Len(last.records) :
            /\ last.records[i] \in Parsable
            /\ EntryOf(last.records[i]).Protocol # call.queryType )
    => /\ ret.err = Nil
       /\ ret.result = Entry(<<>>, <<>>, 0)

C5_Witness ==
    /\ Returned("GetServiceByName")
    /\ MainLookupDone
    /\ call.queryType = Udp
    /\ last = [records |-> <<RecFakeTcp>>, err |-> Nil]
    /\ ret.result = Entry(<<>>, <<>>, 0)
    /\ ret.err = Nil

(***************************************************************************)
(* C6: whenever Resolve(service, "service") fails, GetServiceByName fails  *)
(* with that same error and the zero ServiceEntry, also when the           *)
(* capability returned records together with its error.  (Resolve's error  *)
(* is always the error of the latest invocation of the capability.)        *)
(***************************************************************************)
\* C6: GetServiceByName returns the error Resolve failed with.
C6_ResolveFailurePropagates ==
    (Returned("GetServiceByName") /\ last.err # Nil) =>
        /\ ret.err = last.err
        /\ ret.result = Entry(<<>>, <<>>, 0)

(***************************************************************************)
(* C7: for a question with a symbolic realm, prepareDNSName calls          *)
(* Resolve(realm, "rhs-extension"); when that fails, prepareDNSName fails  *)
(* with its error and the capability is never invoked for the main name;   *)
(* when it succeeds, the name is composed with the first candidate.        *)
(***************************************************************************)
\* prepareDNSName has just returned, to the client or to the Resolve above it
JustPrepared == Returned("prepareDNSName") \/ Running("Resolve", "prepared")
PreparedQuestion == IF status = "returned" THEN call.question ELSE Top.question
PreparedQueryType == IF status = "returned" THEN call.queryType ELSE Top.queryType
\* the depth of the Resolve that looks the prepared name up (0: the client
\* called prepareDNSName itself)
PreparedFor == IF status = "returned" THEN 0 ELSE Len(stack)

\* the rhs-extension Resolve has returned into prepareDNSName
RhsReturned == stack # <<>> /\ Top.fn = "prepareDNSName" /\ Top.pc = "rhs"

\* the nested call is Resolve(realm, "rhs-extension")
C7_NestedCall ==
    \A i \in 2..Len(stack) :
        (stack[i].fn = "Resolve" /\ stack[i - 1].fn = "prepareDNSName") =>
            /\ Symbolic(stack[i - 1].question)
            /\ stack[i].question = AfterAt(stack[i - 1].question)
            /\ stack[i].queryType = RhsExtension

\* what prepareDNSName returns after the nested call
C7_NestedOutcome ==
    (JustPrepared /\ Symbolic(PreparedQuestion)) =>
        /\ lookups # <<>>
        /\ ret.err # Nil =>
              /\ ret.err = last.err
              /\ InvocationsAt(PreparedFor) = 0
        /\ ret.err = Nil =>
              /\ last.err = Nil
              /\ last.records # <<>>
              /\ ret.dns = LocalPart(PreparedQuestion) \o <<".">> \o PreparedQueryType
                              \o AthenaConfig.Nameserver \o <<".">> \o last.records[1]

\* a successful rhs-extension lookup yields a composed name
C7_SuccessComposes ==
    (RhsReturned /\ ret.err = Nil) => (ret.txt # <<>> /\ status # "panicked")

\* C7: the nested call, its failure and its success, as the claim states them.
C7_RhsIndirection == C7_NestedCall /\ C7_NestedOutcome /\ C7_SuccessComposes

\* The part of C7 that holds of the code: everything but the composition
\* from a successful answer without candidates.
C7_ExceptNoCandidate == C7_NestedCall /\ C7_NestedOutcome

(***************************************************************************)
(* C8: realm indirection recurses at most one level: the question of the   *)
(* nested Resolve is no redirect question, a top-level Resolve nests at    *)
(* most one further Resolve and invokes the capability at most twice.      *)
(***************************************************************************)
ResolveFrames == Cardinality({i \in 1..Len(stack) : stack[i].fn = "Resolve"})
NestedQuestionsPlain ==
    \A i \in 2..Len(stack) : stack[i].fn = "Resolve" => ~HasAt(stack[i].question)

\* C8 as stated: one level at most, two invocations at most.
C8_OneLevel ==
    call.fn = "Resolve" =>
        /\ NestedQuestionsPlain
        /\ ResolveFrames <= 2
        /\ Len(lookups) <= 2

\* C8 as amended: one level for each '@' of a question with a symbolic
\* realm, none for a question without '@' or with a qualified realm; one
\* level at most, with a plain nested question, when there is one '@'.
C8_LevelPerAt ==
    call.fn = "Resolve" =>
        LET k == IF Symbolic(call.question) THEN NumAt(call.question) ELSE 0 IN
        /\ ResolveFrames <= k + 1
        /\ Len(lookups) <= k + 1
        /\ NumAt(call.question) <= 1 => NestedQuestionsPlain

C8_Witness ==
    /\ Returned("Resolve")
    /\ NumAt(call.question) = 2
    /\ Len(lookups) = 3
    /\ ret.err = Nil

(***************************************************************************)
(* C9: on reaching, before any protocol match, a record that is not        *)
(* exactly a (string, string, integer) triple, GetServiceByName returns an *)
(* error and the zero ServiceEntry, even when a later record matches.      *)
(***************************************************************************)
\* C9 as stated: any record other than an exact triple aborts the scan.
C9_NotExactTripleAborts ==
    (Returned("GetServiceByName") /\ MainLookupDone /\ last.err = Nil) =>
        \A i \in 1..Len(last.records) :
            ( /\ last.records[i] \notin WellFormed
              /\ SkippedWellFormed(last.records, i, call.queryType) )
            => /\ ret.err # Nil
               /\ ret.result = Entry(<<>>, <<>>, 0)

\* C9 as amended: a record with a missing field, or whose third field does
\* not start with a number, aborts the scan with an error; a record whose
\* third field starts with a number and goes on is parsed, the number being
\* its port.
C9_UnparsableAborts ==
    (Returned("GetServiceByName") /\ MainLookupDone) =>
        \A i \in 1..Len(last.records) :
            /\ ( /\ last.records[i] \in Unparsable
                 /\ Skipped(last.records, i, call.queryType) )
               => /\ ret.err \notin {Nil} \cup LookupErrors
                  /\ ret.result = Entry(<<>>, <<>>, 0)
            /\ ( /\ last.records[i] = RecTrailing
                 /\ call.queryType = Udp
                 /\ Skipped(last.records, i, call.queryType) )
               => /\ ret.err = Nil
                  /\ ret.result = Entry(Zephyr, Udp, 21)

C9_Witness ==
    /\ Returned("GetServiceByName")
    /\ MainLookupDone
    /\ call.queryType = Udp
    /\ last = [records |-> <<RecBadPort, RecZephyrUdp>>, err |-> Nil]
    /\ ret.err # Nil
    /\ ret.result = Entry(<<>>, <<>>, 0)

(***************************************************************************)
(* C10: every call to Resolve completes by returning records or an error,  *)
(* never by crashing, also when the rhs-extension lookup succeeds with no  *)
(* candidate.                                                              *)
(***************************************************************************)
\* C10: no call of Resolve ends in a panic.
C10_ResolveNeverCrashes == call.fn = "Resolve" => status # "panicked"

====
